---------------------------- MODULE Spec2Model ----------------------------
(***************************************************************************)
(* A model of src/src/merkle.rs: MerkleTree::new / build_tree construct a  *)
(* parent-linked binary hash tree over a vector of leaf digests;           *)
(* generate_proofs / gen_proof walk the parent links from a leaf to the    *)
(* root; verify replays a proof over raw data.                             *)
(*                                                                         *)
(* Byte strings are sequences of tokens.  The digest function is modelled  *)
(* as a free (collision-free) constructor: Hash(b) brackets b, and         *)
(* concatenation of byte strings is concatenation of sequences, so that    *)
(* Hash(x \o y) is determined by the bytes x \o y alone, as in the code.   *)
(***************************************************************************)
EXTENDS Integers, Sequences, FiniteSets, TLC

\* Largest number of leaves handed to MerkleTree::new.
MaxLeaves == 5

\* Number of call frames the thread's stack holds before it overflows.
StackLimit == 8

VARIABLES
    pc,        \* "idle" | "build" | "ret" | "done" | "abort" | "panic"
    contents,  \* the raw data whose digests are handed to MerkleTree::new
    heap,      \* the Rc<Node> allocations, in allocation order
    stack,     \* call frames: new at the bottom, build_tree frames above
    root,      \* MerkleTree.root (index into heap, 0 before it is set)
    leaves,    \* MerkleTree.leaves (indices into heap)
    built,     \* the heap as it was when MerkleTree::new returned
    out        \* the last public call after construction and what it returned

vars == <<pc, contents, heap, stack, root, leaves, built, out>>

--------------------------------------------------------------------------
\* hmac_sha256::Hash::hash : bytes -> [u8; 32], collision-free.
Hash(bytes) == <<"(">> \o bytes \o <<")">>

\* &[0u8; 32], what Node::hash returns for Node::Empty.
ZeroHash == <<"0">>

\* Raw leaf data used by the callers: short strings, and one 64-byte string
\* that happens to be the concatenation of two digests.
DataSet == { <<"a">>, <<"b">>, Hash(<<"a">>) \o Hash(<<"b">>) }

SeqsUpTo(S, n) == UNION { [1..k -> S] : k \in 0..n }

\* Weak::new(): a parent link that upgrades to None.
NoNode == 0

--------------------------------------------------------------------------
\* enum Node, each value behind its Rc (strong = the Rc's strong count;
\* sets = how many times set_parent has been called on the node).
LeafNode(h) ==
    [kind |-> "Leaf", hash |-> h, parent |-> NoNode, left |-> NoNode,
     right |-> NoNode, strong |-> 1, sets |-> 0]

InnerNode(h, l, r) ==
    [kind |-> "Node", hash |-> h, parent |-> NoNode, left |-> l,
     right |-> r, strong |-> 1, sets |-> 0]

EmptyNode ==
    [kind |-> "Empty", hash |-> <<>>, parent |-> NoNode, left |-> NoNode,
     right |-> NoNode, strong |-> 1, sets |-> 0]

\* Node::hash
hash(h, n) == IF h[n].kind = "Empty" THEN ZeroHash ELSE h[n].hash

\* Node::get_left
get_left(h, n) == IF h[n].kind = "Node" THEN h[n].left ELSE NoNode

\* Node::get_right: None when the right slot holds Node::Empty
get_right(h, n) ==
    IF h[n].kind = "Node" /\ h[h[n].right].kind # "Empty"
    THEN h[n].right ELSE NoNode

\* Node::parent: Weak::upgrade, None once the parent's strong count is 0
parent(h, n) ==
    IF h[n].kind = "Empty" THEN NoNode
    ELSE IF h[n].parent # NoNode /\ h[h[n].parent].strong > 0
         THEN h[n].parent ELSE NoNode

\* Node::set_parent panics on Node::Empty
set_parent_panics(h, c) == h[c].kind = "Empty"

\* Node::set_parent on a Leaf or a Node
set_parent(h, c, p) == [h EXCEPT ![c].parent = p, ![c].sets = @ + 1]

\* Rc::clone
RcClone(h, n) == [h EXCEPT ![n].strong = @ + 1]

\* Dropping one Rc: the node is freed at strong count 0, and a freed
\* internal node drops its left and right children in turn.
RECURSIVE RcDrop(_, _)
RcDrop(h, n) ==
    LET h1 == [h EXCEPT ![n].strong = @ - 1]
    IN  IF h1[n].strong > 0 \/ h1[n].kind # "Node" THEN h1
        ELSE RcDrop(RcDrop(h1, h1[n].left), h1[n].right)

\* Dropping a Vec<Rc<Node>>
RECURSIVE DropVec(_, _)
DropVec(h, v) == IF v = <<>> THEN h ELSE DropVec(RcDrop(h, Head(v)), Tail(v))

--------------------------------------------------------------------------
\* build_tree, the odd branch (lines 33-42): the last node of a level with
\* an odd count; the new node is the last allocation.
AllocOdd_ZeroRight(h, a) ==
    LET hsh == Hash(hash(h, a) \o ZeroHash)
        h1  == RcClone(h, a)
        h2  == Append(h1, EmptyNode)
        h3  == Append(h2, InnerNode(hsh, a, Len(h) + 1))
    IN  set_parent(h3, a, Len(h) + 2)

AllocOdd(h, a) ==
    LET hsh == Hash(hash(h, a) \o hash(h, a))
        h1  == RcClone(h, a)
        h2  == Append(h1, EmptyNode)
        h3  == Append(h2, InnerNode(hsh, a, Len(h) + 1))
    IN  set_parent(h3, a, Len(h) + 2)

\* build_tree, the pair branch (lines 43-53).
AllocPair_NoRightParent(h, a, b) ==
    LET hsh == Hash(hash(h, a) \o hash(h, b))
        h1  == RcClone(RcClone(h, a), b)
        h2  == Append(h1, InnerNode(hsh, a, b))
    IN  set_parent(h2, a, Len(h) + 1)

AllocPair(h, a, b) ==
    LET hsh == Hash(hash(h, a) \o hash(h, b))
        h1  == RcClone(RcClone(h, a), b)
        h2  == Append(h1, InnerNode(hsh, a, b))
    IN  set_parent(set_parent(h2, a, Len(h) + 1), b, Len(h) + 1)

\* build_tree's base case test (line 26).
IsBase(items) == Len(items) = 1

\* MerkleTree::new, line 20: tree.leaves.extend(nodes)
Extend_Reversed(ls, nodes) ==
    ls \o [k \in 1..Len(nodes) |-> nodes[Len(nodes) + 1 - k]]

Extend(ls, nodes) == ls \o nodes

\* build_tree, line 58: the level handed to the recursive call.
NextLevel_Items(f) == f.items

NextLevel(f) == f.nodes

Frame(fn, items) == [fn |-> fn, items |-> items, nodes |-> <<>>, i |-> 0]

Top == stack[Len(stack)]

NoOut ==
    [op |-> "none", target |-> <<>>, data |-> <<>>, proof |-> <<>>,
     hash |-> <<>>, ok |-> TRUE, start |-> NoNode]

--------------------------------------------------------------------------
\* generate_proofs, lines 71-77: the first leaf whose digest is the target;
\* n stays the root when the loop finds none.
Lookup_Last(h, ls, rt, target) ==
    LET m == { k \in 1..Len(ls) : hash(h, ls[k]) = target }
    IN  IF m = {} THEN rt
        ELSE ls[CHOOSE k \in m : \A j \in m : j <= k]

Lookup(h, ls, rt, target) ==
    LET m == { k \in 1..Len(ls) : hash(h, ls[k]) = target }
    IN  IF m = {} THEN rt
        ELSE ls[CHOOSE k \in m : \A j \in m : k <= j]

\* One proof entry, ([u8; 32], u8).
Entry(d, s) == [hash |-> d, side |-> s]

\* gen_proof, lines 85-107.
RECURSIVE gen_proof_DropAcc(_, _, _)
gen_proof_DropAcc(h, n, proofs) ==
    IF parent(h, n) = NoNode THEN proofs
    ELSE IF h[n].kind \in {"Node", "Leaf"}
    THEN LET p     == parent(h, n)
             pleft == get_left(h, p)
             new_proof ==
                 IF h[n].hash = hash(h, pleft)
                 THEN LET pright == IF get_right(h, p) = NoNode
                                    THEN pleft ELSE get_right(h, p)
                      IN  << Entry(hash(h, pright), 1) >>
                 ELSE << Entry(hash(h, pleft), 0) >>
         IN  gen_proof_DropAcc(h, p, new_proof)
    ELSE <<>>

RECURSIVE gen_proof(_, _, _)
gen_proof(h, n, proofs) ==
    IF parent(h, n) = NoNode THEN proofs
    ELSE IF h[n].kind \in {"Node", "Leaf"}
    THEN LET p     == parent(h, n)
             pleft == get_left(h, p)
             new_proof ==
                 IF h[n].hash = hash(h, pleft)
                 THEN LET pright == IF get_right(h, p) = NoNode
                                    THEN pleft ELSE get_right(h, p)
                      IN  << Entry(hash(h, pright), 1) >>
                 ELSE << Entry(hash(h, pleft), 0) >>
         IN  gen_proof(h, p, proofs \o new_proof)
    ELSE <<>>

\* generate_proofs, lines 69-83: always Ok(proofs).
generate_proofs(h, ls, rt, target) ==
    gen_proof(h, Lookup(h, ls, rt, target), <<>>)

\* verify, lines 109-121.
RECURSIVE verify_loop_Swapped(_, _)
verify_loop_Swapped(hsh, proofs) ==
    IF proofs = <<>> THEN hsh
    ELSE IF Head(proofs).side = 1
         THEN verify_loop_Swapped(Hash(Head(proofs).hash \o hsh), Tail(proofs))
         ELSE verify_loop_Swapped(Hash(hsh \o Head(proofs).hash), Tail(proofs))

RECURSIVE verify_loop(_, _)
verify_loop(hsh, proofs) ==
    IF proofs = <<>> THEN hsh
    ELSE IF Head(proofs).side = 1
         THEN verify_loop(Hash(hsh \o Head(proofs).hash), Tail(proofs))
         ELSE verify_loop(Hash(Head(proofs).hash \o hsh), Tail(proofs))

verify(data, proofs) == verify_loop(Hash(data), proofs)

\* root_hash, lines 61-63.
root_hash(h, rt) == hash(h, rt)

--------------------------------------------------------------------------
\* Inputs of the calls made on a built tree.

\* Digests asked for: the digest of every kind of data, in the tree or not.
Targets == { Hash(d) : d \in DataSet }

\* The bytes an internal node hashed: its children's digests, concatenated.
Preimage(h, n) ==
    hash(h, h[n].left) \o
    (IF get_right(h, n) = NoNode THEN hash(h, h[n].left)
     ELSE hash(h, h[n].right))

Suffixes(s) == { SubSeq(s, k, Len(s)) : k \in 1..(Len(s) + 1) }

\* Data handed to verify: leaf data, other data, and the bytes under
\* internal nodes.
VerifyData ==
    DataSet \cup { Preimage(heap, n) :
                     n \in { m \in 1..Len(heap) : heap[m].kind = "Node" } }

\* Proofs handed to verify: genuine ones, their tails, and made-up ones
\* (a side marker other than 0 and 1 included).
VerifyProofs ==
    UNION { Suffixes(generate_proofs(heap, leaves, root, t)) : t \in Targets }
    \cup { << Entry(Hash(d), s) >> : d \in DataSet, s \in 0..2 }

--------------------------------------------------------------------------
Init ==
    /\ pc = "idle"
    /\ contents = <<>>
    /\ heap = <<>>
    /\ stack = <<>>
    /\ root = NoNode
    /\ leaves = <<>>
    /\ built = <<>>
    /\ out = NoOut

\* MerkleTree::new, lines 13-19: wrap every digest in a Leaf and call
\* build_tree(&nodes).
New ==
    /\ pc = "idle"
    /\ \E c \in SeqsUpTo(DataSet, MaxLeaves) :
         LET ids == [k \in 1..Len(c) |-> k]
         IN  /\ contents' = c
             /\ heap' = [k \in 1..Len(c) |-> LeafNode(Hash(c[k]))]
             /\ stack' = << [Frame("new", <<>>) EXCEPT !.nodes = ids],
                            Frame("build_tree", ids) >>
    /\ pc' = "build"
    /\ UNCHANGED <<root, leaves, built, out>>

\* build_tree, lines 26-28: a level of one node is the root.
BuildBase ==
    /\ pc = "build"
    /\ IsBase(Top.items)
    /\ root' = Top.items[1]
    /\ heap' = RcClone(heap, Top.items[1])
    /\ stack' = SubSeq(stack, 1, Len(stack) - 1)
    /\ pc' = "ret"
    /\ UNCHANGED <<contents, leaves, built, out>>

\* build_tree, one iteration of the loop at an unpaired last node.
BuildOdd ==
    /\ pc = "build"
    /\ ~IsBase(Top.items)
    /\ Top.i < Len(Top.items)
    /\ Top.i + 1 >= Len(Top.items)
    /\ LET a == Top.items[Top.i + 1]
       IN  IF set_parent_panics(heap, a)
           THEN pc' = "panic" /\ UNCHANGED <<heap, stack>>
           ELSE /\ heap' = AllocOdd(heap, a)
                /\ stack' = [stack EXCEPT
                       ![Len(stack)].nodes = Append(@, Len(heap'))  ,
                       ![Len(stack)].i = @ + 2]
                /\ pc' = pc
    /\ UNCHANGED <<contents, root, leaves, built, out>>

\* build_tree, one iteration of the loop at a full pair.
BuildPair ==
    /\ pc = "build"
    /\ ~IsBase(Top.items)
    /\ Top.i + 1 < Len(Top.items)
    /\ LET a == Top.items[Top.i + 1]
           b == Top.items[Top.i + 2]
       IN  IF set_parent_panics(heap, a) \/ set_parent_panics(heap, b)
           THEN pc' = "panic" /\ UNCHANGED <<heap, stack>>
           ELSE /\ heap' = AllocPair(heap, a, b)
                /\ stack' = [stack EXCEPT
                       ![Len(stack)].nodes = Append(@, Len(heap')),
                       ![Len(stack)].i = @ + 2]
                /\ pc' = pc
    /\ UNCHANGED <<contents, root, leaves, built, out>>

\* build_tree, line 58: the loop is over, recurse on the new level.  The
\* call needs a stack frame; the thread aborts when none is left.
BuildRecurse ==
    /\ pc = "build"
    /\ ~IsBase(Top.items)
    /\ Top.i >= Len(Top.items)
    /\ IF Len(stack) >= StackLimit
       THEN pc' = "abort" /\ UNCHANGED stack
       ELSE pc' = pc /\ stack' = Append(stack, Frame("build_tree", NextLevel(Top)))
    /\ UNCHANGED <<contents, heap, root, leaves, built, out>>

\* build_tree returns from line 58: the frame's local `nodes` is dropped.
BuildReturn ==
    /\ pc = "ret"
    /\ Top.fn = "build_tree"
    /\ heap' = DropVec(heap, Top.nodes)
    /\ stack' = SubSeq(stack, 1, Len(stack) - 1)
    /\ UNCHANGED <<pc, contents, root, leaves, built, out>>

\* MerkleTree::new, lines 20-22: the leaf nodes move into tree.leaves.
NewReturn ==
    /\ pc = "ret"
    /\ Top.fn = "new"
    /\ leaves' = Extend(leaves, Top.nodes)
    /\ stack' = <<>>
    /\ built' = heap
    /\ pc' = "done"
    /\ UNCHANGED <<contents, heap, root, out>>

\* pub fn root_hash
RootHash ==
    /\ pc = "done"
    /\ out' = [NoOut EXCEPT !.op = "root_hash", !.hash = root_hash(heap, root)]
    /\ UNCHANGED <<pc, contents, heap, stack, root, leaves, built>>

\* pub fn generate_proofs
GenerateProofs ==
    /\ pc = "done"
    /\ \E t \in Targets :
         out' = [NoOut EXCEPT !.op = "generate_proofs", !.target = t,
                              !.start = Lookup(heap, leaves, root, t),
                              !.proof = generate_proofs(heap, leaves, root, t),
                              !.ok = TRUE]
    /\ UNCHANGED <<pc, contents, heap, stack, root, leaves, built>>

\* pub fn verify.  It is an associated function that reads no tree state,
\* so a second call right after one reaches no state a first call does not:
\* the caller here never makes two in a row.
Verify ==
    /\ pc = "done"
    /\ out.op # "verify"
    /\ \E d \in VerifyData, p \in VerifyProofs :
         out' = [NoOut EXCEPT !.op = "verify", !.data = d, !.proof = p,
                              !.hash = verify(d, p)]
    /\ UNCHANGED <<pc, contents, heap, stack, root, leaves, built>>

Next ==
    \/ New
    \/ BuildBase
    \/ BuildOdd
    \/ BuildPair
    \/ BuildRecurse
    \/ BuildReturn
    \/ NewReturn
    \/ RootHash
    \/ GenerateProofs
    \/ Verify

Spec == Init /\ [][Next]_vars

\* The steps of MerkleTree::new once it has been called.
Construct ==
    BuildBase \/ BuildOdd \/ BuildPair \/ BuildRecurse \/ BuildReturn \/ NewReturn

\* MerkleTree::new is straight-line sequential code: once called, its next
\* step is taken.  Nothing obliges the caller to make a call.
FairSpec == Spec /\ WF_vars(Construct)

--------------------------------------------------------------------------
\* Reference definitions used by the properties below.

\* The digests handed to MerkleTree::new, in input order.
LeafDigests == [k \in 1..Len(contents) |-> Hash(contents[k])]

\* The next level of the reference Merkle root: pairs left to right, the
\* dangling last element paired with itself.
RefLevel(s) ==
    [k \in 1..((Len(s) + 1) \div 2) |->
        IF 2 * k <= Len(s) THEN Hash(s[2 * k - 1] \o s[2 * k])
        ELSE Hash(s[2 * k - 1] \o s[2 * k - 1])]

RECURSIVE RefRoot(_)
RefRoot(s) == IF Len(s) = 1 THEN s[1] ELSE RefRoot(RefLevel(s))

\* ceil(log2(n)) for n >= 1.
CeilLog2(n) == CHOOSE k \in 0..n : 2^k >= n /\ (k = 0 \/ 2^(k - 1) < n)

\* Index of the first leaf of the input whose digest is t.
FirstIndex(t) ==
    CHOOSE k \in 1..Len(contents) :
        /\ LeafDigests[k] = t
        /\ \A j \in 1..(k - 1) : LeafDigests[j] # t

InTree(t) == \E k \in 1..Len(contents) : LeafDigests[k] = t

\* The proof read off the tree's structure by node identity, leaf first.
RECURSIVE TruePath(_, _)
TruePath(h, n) ==
    IF h[n].parent = NoNode THEN <<>>
    ELSE LET p == h[n].parent
             e == IF h[p].left = n
                  THEN Entry(IF h[h[p].right].kind = "Empty" THEN h[n].hash
                             ELSE h[h[p].right].hash, 1)
                  ELSE Entry(h[h[p].left].hash, 0)
         IN  <<e>> \o TruePath(h, p)

\* The node reached by following parent() as far as it goes.
RECURSIVE Climb(_, _)
Climb(h, n) == IF parent(h, n) = NoNode THEN n ELSE Climb(h, parent(h, n))

Holders(h, n) ==
    { p \in 1..Len(h) : h[p].kind = "Node" /\ n \in {h[p].left, h[p].right} }

HasDuplicates == \E j, k \in 1..Len(contents) : j < k /\ contents[j] = contents[k]

--------------------------------------------------------------------------
\* C1: round trip.  Whenever verify was called with the raw data of a leaf
\* of the built tree and the proof generate_proofs returns for that data's
\* digest, it returned the tree's root hash.
C1_RoundTrip ==
    ( /\ out.op = "verify"
      /\ \E k \in 1..Len(contents) : contents[k] = out.data
      /\ out.proof = generate_proofs(heap, leaves, root, Hash(out.data)) )
    => out.hash = root_hash(heap, root)

C1_Witness ==
    /\ out.op = "verify"
    /\ Len(contents) = 5
    /\ HasDuplicates
    /\ contents[5] = out.data
    /\ out.proof = generate_proofs(heap, leaves, root, Hash(out.data))
    /\ Len(out.proof) = 3
    /\ out.hash = root_hash(heap, root)

\* C2: generate_proofs for a digest that no leaf has fails with NotFound
\* and starts its walk at no node.
C2_NotFound ==
    (out.op = "generate_proofs" /\ ~InTree(out.target))
    => (out.ok = FALSE /\ out.start = NoNode)

\* C3: the root hash of a built tree, and what root_hash returns, is the
\* reference Merkle root of the input digests (last digest duplicated at an
\* odd level; a single leaf is its own root).
C3_RootIsReference ==
    /\ pc = "done" => hash(heap, root) = RefRoot(LeafDigests)
    /\ out.op = "root_hash" => out.hash = RefRoot(LeafDigests)

C3_Witness ==
    /\ out.op = "root_hash"
    /\ Len(contents) = 5
    /\ out.hash = RefRoot(LeafDigests)
    /\ out.hash # ZeroHash

\* C4: the proof generate_proofs returns for the digest of a leaf has
\* ceil(log2(n)) entries, n the number of leaves (0 for n = 1).
C4_ProofLength ==
    (out.op = "generate_proofs" /\ InTree(out.target))
    => Len(out.proof) = CeilLog2(Len(contents))

C4_Witness ==
    /\ out.op = "generate_proofs"
    /\ InTree(out.target)
    /\ Len(contents) = 5
    /\ Len(out.proof) = 3

\* C5: MerkleTree::new on an empty sequence fails at once: it builds no
\* tree and build_tree is never entered a second time.
C5_EmptyFailsFast ==
    (pc # "idle" /\ contents = <<>>) => (Len(stack) <= 2 /\ pc # "done")

\* C6: verify on data that is the raw data of no leaf of the tree never
\* returns the tree's root hash, whatever the proof.
C6_WrongDataMismatch ==
    ( /\ out.op = "verify"
      /\ \A k \in 1..Len(contents) : contents[k] # out.data )
    => out.hash # root_hash(heap, root)

\* C7: parent links.  At every moment each node has had set_parent called
\* at most once, a node whose parent is set is a child of that parent, and
\* Empty never has a parent.  Once new has returned the root has no parent,
\* every other Leaf or Node has exactly one parent (set once, the one node
\* holding it as a child), and parent() leads from each leaf to the root.
C7_ParentLinks ==
    /\ \A n \in 1..Len(heap) :
         /\ heap[n].sets <= 1
         /\ heap[n].kind = "Empty" => (heap[n].sets = 0 /\ heap[n].parent = NoNode)
         /\ heap[n].sets = 0 => heap[n].parent = NoNode
         /\ heap[n].sets = 1 =>
              /\ heap[n].parent # NoNode
              /\ Holders(heap, n) = {heap[n].parent}
    /\ pc = "done" =>
         /\ root # NoNode
         /\ heap[root].sets = 0
         /\ parent(heap, root) = NoNode
         /\ \A n \in 1..Len(heap) :
              (heap[n].kind # "Empty" /\ n # root) =>
                 /\ heap[n].sets = 1
                 /\ parent(heap, n) \in Holders(heap, n)
         /\ \A k \in 1..Len(leaves) : Climb(heap, leaves[k]) = root

C7_Witness ==
    /\ pc = "done"
    /\ Len(leaves) = 5
    /\ \E n \in 1..Len(heap) : heap[n].kind = "Empty"
    /\ \A k \in 1..Len(leaves) : Climb(heap, leaves[k]) = root /\ leaves[k] # root

\* Each build_tree frame above another works on a level of ceil(k/2) nodes,
\* k > 1 the size of the level below.
LevelsShrink ==
    \A j \in 2..(Len(stack) - 1) :
        LET k == Len(stack[j].items)
        IN  /\ k > 1
            /\ Len(stack[j + 1].items) = (k + 1) \div 2
            /\ Len(stack[j + 1].items) < k

\* C8: construction from a non-empty input terminates: every recursive
\* call gets a strictly smaller level of ceil(k/2) nodes, nothing fails,
\* and new returns with the last single node as the root.
C8_Terminates ==
    /\ [](contents # <<>> => (pc \notin {"abort", "panic"} /\ LevelsShrink))
    /\ [](pc = "done" => (root # NoNode /\ parent(heap, root) = NoNode))
    /\ []((pc = "build" /\ contents # <<>>) => <>(pc = "done"))

C8_Witness ==
    /\ pc = "build"
    /\ Len(contents) = 5
    /\ Len(stack) = 5
    /\ Len(Top.items) = 1

\* C9: for the digest of a leaf, generate_proofs starts at the lowest-index
\* leaf with that digest and returns that leaf's path as node identity
\* defines it: marker 1 with the right sibling's digest (its own when the
\* right slot is Empty) where the path node is a left child, marker 0 with
\* the left sibling's digest where it is a right child.
C9_TruePositions ==
    (out.op = "generate_proofs" /\ InTree(out.target))
    => /\ out.start = leaves[FirstIndex(out.target)]
       /\ out.proof = TruePath(heap, out.start)

C9_Witness ==
    /\ out.op = "generate_proofs"
    /\ InTree(out.target)
    /\ Len(contents) = 5
    /\ \E k \in 1..Len(contents) : k > FirstIndex(out.target) /\ LeafDigests[k] = out.target
    /\ \E n \in 1..Len(heap) : heap[n].kind = "Node" /\ heap[n].hash = out.target
    /\ out.proof = TruePath(heap, out.start)
    /\ \E e \in 1..Len(out.proof) : out.proof[e].side = 0

\* C10: once new has returned, no call changes the root, any node or the
\* retained leaves; the leaves carry the input digests in input order; and
\* generate_proofs returns what it returns on the tree as new left it.
C10_Immutable ==
    /\ [][pc = "done" =>
            (pc' = "done" /\ heap' = heap /\ root' = root /\ leaves' = leaves)]_vars
    /\ [](pc = "done" =>
            /\ heap = built
            /\ Len(leaves) = Len(contents)
            /\ \A k \in 1..Len(leaves) : hash(heap, leaves[k]) = LeafDigests[k])
    /\ [](out.op = "generate_proofs" =>
            out.proof = generate_proofs(built, leaves, root, out.target))

C10_Witness ==
    /\ pc = "done"
    /\ out.op = "generate_proofs"
    /\ Len(out.proof) = 3
    /\ heap = built
    /\ \E j, k \in 1..Len(leaves) : hash(heap, leaves[j]) # hash(heap, leaves[k])

==========================================================================
